---- MODULE Spec2Model ----
(***************************************************************************)
(* NeonChat (src/main.py): OTP login issuing a signed session token, and a *)
(* single chat room fanned out over websocket connections.                 *)
(*                                                                         *)
(* The HTTP handlers send_otp and verify_otp are plain `def` functions:    *)
(* FastAPI runs them on a thread pool, so their statements interleave.     *)
(* ws_endpoint is a coroutine: its code between two `await`s runs without  *)
(* interruption, and other coroutines run while it is suspended.           *)
(*                                                                         *)
(* Specifications, all over the same variables:                            *)
(*   SpecAuth     send_otp and verify_otp requests on the thread pool      *)
(*   SpecToken    one login at a time, GET /api/me, a clock of days        *)
(*   SpecChat     the chat room from an empty timeline                     *)
(*   SpecHistory  the chat room from a timeline of HISTORY_LIMIT - 1       *)
(*   SpecText     the chat room with texts around MAX_TEXT_LENGTH          *)
(***************************************************************************)
EXTENDS Integers, Sequences, FiniteSets, TLC

\* ------------------------------------------------------------------ bounds
MaxConns == 3          \* websocket connection attempts
MaxMsgs == 2           \* messages appended to the timeline
MaxLoad == 4           \* connection attempts and frames received together
MaxThreads == 2        \* verify_otp requests in flight
MaxSends == 2          \* send_otp calls
AuthMaxTime == 301     \* the clock of the login part stops here
MaxTokens == 1         \* session tokens issued for the /api/me calls

\* ------------------------------------------------------- program constants
OTP_TTL_SECONDS == 300
TOKEN_TTL_SECONDS == 604800       \* timedelta(days=7)
CLOSE_UNAUTHORIZED == 4401
HISTORY_LIMIT == 50
MAX_TEXT_LENGTH == 2000           \* MessageIn: constr(max_length=2000)
DICT_MINSIZE == 8                 \* CPython PyDict_MINSIZE
JWT_SECRET == "CHANGE_ME_TO_A_LONG_RANDOM_SECRET"

Handles == 1..MaxConns
NoHandle == 0
Threads == 1..MaxThreads

VARIABLES
    now,          \* time.time() / datetime.utcnow(), in seconds
    users,        \* users: phone -> user record
    otps,         \* otps: phone -> challenge record
    vt,           \* verify_otp requests: position and locals of each thread
    requested,    \* history: the challenges send_otp issued, per phone
    responses,    \* history: the successful verify_otp responses, each with
                  \* the phone and user id returned and the subject of its token
    errors,       \* history: the details of the HTTPException(400) responses
                  \* of verify_otp
    issued,       \* the session tokens issue_token made for the /api/me calls
    me,           \* the last response of GET /api/me
    connections,  \* connections: user id -> websocket (a CPython dict)
    messages,     \* messages: the timeline
    ws,           \* ws_endpoint coroutines: position and locals of each
    alive,        \* per websocket: the peer is there and the transport is open
    wlog          \* per websocket: the frames the server wrote to it, in order

vars == <<now, users, otps, vt, requested, responses, errors, issued, me,
          connections, messages, ws, alive, wlog>>
authVars == <<users, otps, vt, requested, responses, errors>>
tokenVars == <<issued, me>>
chatVars == <<connections, messages, ws, alive, wlog>>

\* ------------------------------------------------------------ text helpers
Space == " "

RECURSIVE LStrip(_)
LStrip(s) == IF s # <<>> /\ Head(s) = Space THEN LStrip(Tail(s)) ELSE s

RECURSIVE RStrip(_)
RStrip(s) ==
    IF s # <<>> /\ s[Len(s)] = Space THEN RStrip(SubSeq(s, 1, Len(s) - 1)) ELSE s

\* a strip that strips nothing
StripNothing(s) == s

\* str.strip()
Strip(s) == RStrip(LStrip(s))

\* a slice that takes the whole sequence
WholeSeq(s, n) == s

\* seq[-n:]
LastN(s, n) == IF Len(s) <= n THEN s ELSE SubSeq(s, Len(s) - n + 1, Len(s))

\* --------------------------------------------------- the connections dict
\* A CPython dict keeps its entries in insertion order in an array; a deleted
\* entry leaves a hole, a new key is appended, and a full array is rebuilt
\* without the holes.  An iterator remembers the size of the dict and the
\* position it reached.
Hole == [key |-> "", val |-> NoHandle]
EmptyDict == [entries |-> <<>>, usable |-> (2 * DICT_MINSIZE) \div 3]

Slots(d) == {i \in 1..Len(d.entries) : d.entries[i] # Hole}
Used(d) == Cardinality(Slots(d))
HasKey(d, k) == \E i \in Slots(d) : d.entries[i].key = k
SlotOf(d, k) == CHOOSE i \in Slots(d) : d.entries[i].key = k
DictGet(d, k) == IF HasKey(d, k) THEN d.entries[SlotOf(d, k)].val ELSE NoHandle
Keys(d) == {d.entries[i].key : i \in Slots(d)}
Values(d) == {d.entries[i].val : i \in Slots(d)}

RECURSIVE KeySize(_, _)
KeySize(size, minsize) == IF size >= minsize THEN size ELSE KeySize(2 * size, minsize)

Compact(entries) == SelectSeq(entries, LAMBDA e : e # Hole)

\* insertion_resize: rebuild the entry array for 3 * used entries
DictResize(d) ==
    LET live == Compact(d.entries)
        size == KeySize(DICT_MINSIZE, 3 * Len(live))
    IN [entries |-> live, usable |-> ((2 * size) \div 3) - Len(live)]

\* a registry that stacks entries: every assignment appends
DictSetAppend(d, k, v) ==
    [entries |-> Append(d.entries, [key |-> k, val |-> v]), usable |-> d.usable - 1]

\* connections[k] = v
DictSet(d, k, v) ==
    IF HasKey(d, k)
    THEN [d EXCEPT !.entries[SlotOf(d, k)].val = v]
    ELSE LET r == IF d.usable <= 0 THEN DictResize(d) ELSE d
         IN [entries |-> Append(r.entries, [key |-> k, val |-> v]),
             usable |-> r.usable - 1]

\* connections.pop(k, None)
DictPop(d, k) ==
    IF HasKey(d, k) THEN [d EXCEPT !.entries[SlotOf(d, k)] = Hole] ELSE d

RECURSIVE PopAll(_, _)
PopAll(d, ks) == IF ks = <<>> THEN d ELSE PopAll(DictPop(d, Head(ks)), Tail(ks))

NoIter == [di_used |-> 0, di_pos |-> 0, len |-> 0]

\* iter(connections.items())
DictIter(d) == [di_used |-> Used(d), di_pos |-> 0, len |-> Used(d)]

\* next(it): an item, StopIteration, or RuntimeError when the dict was
\* changed since the iterator was made
DictIterNext(d, it) ==
    LET rest == {i \in Slots(d) : i > it.di_pos}
        i == IF rest = {} THEN 0 ELSE CHOOSE j \in rest : \A k \in rest : j <= k
    IN IF it.di_used # Used(d)
       THEN [kind |-> "error", key |-> "", val |-> NoHandle, it |-> it]
       ELSE IF rest = {}
       THEN [kind |-> "stop", key |-> "", val |-> NoHandle, it |-> it]
       ELSE IF it.len = 0
       THEN [kind |-> "error", key |-> "", val |-> NoHandle, it |-> it]
       ELSE [kind |-> "item", key |-> d.entries[i].key, val |-> d.entries[i].val,
             it |-> [it EXCEPT !.di_pos = i, !.len = it.len - 1]]

\* ----------------------------------------------------------- session token
NoUser == [id |-> "", phone |-> ""]

\* the HS256 signature: a keyed function of the claims
Sign(sub, phone, exp, iat, key) ==
    [sub |-> sub, phone |-> phone, exp |-> exp, iat |-> iat, key |-> key]

JwtEncode(sub, phone, exp, iat, key) ==
    [fmt |-> "jwt", sub |-> sub, phone |-> phone, exp |-> exp, iat |-> iat,
     sig |-> Sign(sub, phone, exp, iat, key)]

\* a session token issued with a lifetime of one day
issue_token_day(user, t) ==
    JwtEncode(user.id, user.phone, t + (TOKEN_TTL_SECONDS \div 7), t, JWT_SECRET)

\* issue_token(user) at time t
issue_token(user, t) ==
    JwtEncode(user.id, user.phone, t + TOKEN_TTL_SECONDS, t, JWT_SECRET)

\* a decode that does not look at the expiry
JwtDecodesNoExpiry(tok, t) ==
    /\ tok.fmt = "jwt"
    /\ tok.sig = Sign(tok.sub, tok.phone, tok.exp, tok.iat, JWT_SECRET)

\* jwt.decode: JWTError for a malformed token, a bad signature, an expired token
JwtDecodes(tok, t) ==
    /\ tok.fmt = "jwt"
    /\ tok.sig = Sign(tok.sub, tok.phone, tok.exp, tok.iat, JWT_SECRET)
    /\ ~(tok.exp < t)

\* HTTPException(status_code=401, detail=detail)
Unauthorized(detail) == [ok |-> FALSE, id |-> "", phone |-> "", detail |-> detail]

\* verify_token(token) at time t: the user, or HTTPException(401)
verify_token(tok, t) ==
    IF JwtDecodes(tok, t)
    THEN IF tok.sub = "" \/ tok.phone = ""
         THEN Unauthorized("Invalid token")
         ELSE [ok |-> TRUE, id |-> tok.sub, phone |-> tok.phone, detail |-> ""]
    ELSE Unauthorized("Invalid token")

NoToken == [fmt |-> "none", sub |-> "", phone |-> "", exp |-> 0, iat |-> 0,
            sig |-> Sign("", "", 0, 0, "")]

\* the Authorization header of a request: absent, or "Bearer <token>"
NoAuth == [scheme |-> "", token |-> NoToken]
Bearer(tok) == [scheme |-> "Bearer", token |-> tok]

\* get_auth_user(request) at time t
get_auth_user(auth, t) ==
    IF auth.scheme # "Bearer" THEN Unauthorized("Missing token")
    ELSE verify_token(auth.token, t)

\* ------------------------------------------------------------------ login
Phones == {"+1555000111", "+1555000222"}
Codes == {"123456", "000000"}
UserIds == {"u_1", "u_2"}

NoOtp == [code |-> "", expires |-> 0]
NoUserRecord == [id |-> "", phone |-> "", created_at |-> 0]
IdleThread ==
    [pc |-> "idle", phone |-> "", code |-> "", record |-> NoOtp,
     user |-> NoUserRecord]

gen_otp == "123456"

RECURSIVE SumLen(_, _)
SumLen(f, S) ==
    IF S = {} THEN 0
    ELSE LET x == CHOOSE y \in S : TRUE IN Len(f[x]) + SumLen(f, S \ {x})

\* the send_otp calls so far
Sends == SumLen(requested, Phones)

\* a send_otp that keeps a challenge the phone already has
send_otp_keep(phone) ==
    /\ Sends < MaxSends
    /\ LET rec == [code |-> gen_otp, expires |-> now + OTP_TTL_SECONDS]
       IN /\ otps' = [otps EXCEPT ![phone] = IF @ = NoOtp THEN rec ELSE @]
          /\ requested' = [requested EXCEPT ![phone] = Append(@, rec)]
    /\ UNCHANGED <<now, users, vt, responses, errors, tokenVars, chatVars>>

\* lines 102-112: store the challenge of the phone, over any earlier one
send_otp(phone) ==
    /\ Sends < MaxSends
    /\ LET rec == [code |-> gen_otp, expires |-> now + OTP_TTL_SECONDS]
       IN /\ otps' = [otps EXCEPT ![phone] = rec]
          /\ requested' = [requested EXCEPT ![phone] = Append(@, rec)]
    /\ UNCHANGED <<now, users, vt, responses, errors, tokenVars, chatVars>>

\* a verify_otp request is handed to a thread of the pool
VerifyBegin(t, phone, code) ==
    /\ vt[t].pc = "idle"
    /\ vt' = [vt EXCEPT ![t] = [IdleThread EXCEPT !.pc = "read", !.phone = phone,
                                                  !.code = code]]
    /\ UNCHANGED <<now, users, otps, requested, responses, errors, tokenVars, chatVars>>

\* a request ends with HTTPException(400, detail): the thread is free again
Reject(t, detail) == IdleThread

\* the HTTPException(400, detail) raised in thread t, added to the responses
Raised(t, detail) == errors \cup {detail}

\* lines 117-119
VerifyRead(t) ==
    /\ vt[t].pc = "read"
    /\ LET record == otps[vt[t].phone]
       IN IF record = NoOtp
          THEN /\ vt' = [vt EXCEPT ![t] = Reject(t, "No OTP requested")]
               /\ errors' = Raised(t, "No OTP requested")
          ELSE /\ vt' = [vt EXCEPT ![t] = [@ EXCEPT !.pc = "check", !.record = record]]
               /\ UNCHANGED errors
    /\ UNCHANGED <<now, users, otps, requested, responses, tokenVars, chatVars>>

\* the detail lines 120-123 raise for thread t, "" when they raise nothing
CheckDetail(t) ==
    IF now > vt[t].record.expires THEN "OTP expired"
    ELSE IF vt[t].code # vt[t].record.code THEN "Invalid code"
    ELSE ""

\* a check that uses the challenge up when it rejects the request
VerifyCheckConsume(t) ==
    /\ vt[t].pc = "check"
    /\ IF CheckDetail(t) # ""
       THEN /\ vt' = [vt EXCEPT ![t] = Reject(t, CheckDetail(t))]
            /\ errors' = Raised(t, CheckDetail(t))
            /\ otps' = [otps EXCEPT ![vt[t].phone] = NoOtp]
       ELSE /\ vt' = [vt EXCEPT ![t].pc = "test"]
            /\ UNCHANGED <<errors, otps>>
    /\ UNCHANGED <<now, users, requested, responses, tokenVars, chatVars>>

\* lines 120-123
VerifyCheck(t) ==
    /\ vt[t].pc = "check"
    /\ IF CheckDetail(t) # ""
       THEN /\ vt' = [vt EXCEPT ![t] = Reject(t, CheckDetail(t))]
            /\ errors' = Raised(t, CheckDetail(t))
       ELSE /\ vt' = [vt EXCEPT ![t].pc = "test"]
            /\ UNCHANGED errors
    /\ UNCHANGED <<now, users, otps, requested, responses, tokenVars, chatVars>>

\* line 126
VerifyTest(t) ==
    /\ vt[t].pc = "test"
    /\ vt' = [vt EXCEPT ![t].pc =
                 IF users[vt[t].phone] = NoUserRecord THEN "create" ELSE "fetch"]
    /\ UNCHANGED <<now, users, otps, requested, responses, errors, tokenVars, chatVars>>

\* lines 127-131; gen_user_id() draws any id
VerifyCreate(t, id) ==
    /\ vt[t].pc = "create"
    /\ users' = [users EXCEPT ![vt[t].phone] =
                    [id |-> id, phone |-> vt[t].phone, created_at |-> now]]
    /\ vt' = [vt EXCEPT ![t].pc = "fetch"]
    /\ UNCHANGED <<now, otps, requested, responses, errors, tokenVars, chatVars>>

\* line 132
VerifyFetch(t) ==
    /\ vt[t].pc = "fetch"
    /\ vt' = [vt EXCEPT ![t].pc = "issue", ![t].user = users[vt[t].phone]]
    /\ UNCHANGED <<now, users, otps, requested, responses, errors, tokenVars, chatVars>>

\* lines 133-134
VerifyIssue(t) ==
    /\ vt[t].pc = "issue"
    /\ responses' = responses \cup
           {[phone |-> vt[t].user.phone, id |-> vt[t].user.id,
             sub |-> issue_token(vt[t].user, now).sub]}
    /\ vt' = [vt EXCEPT ![t] = IdleThread]
    /\ UNCHANGED <<now, users, otps, requested, errors, tokenVars, chatVars>>

AuthTick(d) ==
    /\ now + d <= AuthMaxTime
    /\ now' = now + d
    /\ UNCHANGED <<authVars, tokenVars, chatVars>>

\* ---------------------------------------------- one login, then GET /api/me
\* the moments the clock of the token part shows after 0: one second later,
\* then the expiry of a token issued at 0 and the second after it
TokenTimes == {1, TOKEN_TTL_SECONDS, TOKEN_TTL_SECONDS + 1}

NoCall == [at |-> 0, auth |-> NoAuth, user |-> Unauthorized("")]

\* lines 114-134 run by one request with no other request beside it
verify_otp(phone, code, id) ==
    /\ \A t \in Threads : vt[t].pc = "idle"
    /\ LET record == otps[phone]
           detail == IF record = NoOtp THEN "No OTP requested"
                     ELSE IF now > record.expires THEN "OTP expired"
                     ELSE IF code # record.code THEN "Invalid code"
                     ELSE ""
           user == IF users[phone] = NoUserRecord
                   THEN [id |-> id, phone |-> phone, created_at |-> now]
                   ELSE users[phone]
       IN IF detail # ""
          THEN /\ errors' = errors \cup {detail}
               /\ UNCHANGED <<users, responses, issued>>
          ELSE /\ Cardinality(issued) < MaxTokens
               /\ users' = [users EXCEPT ![phone] = user]
               /\ responses' = responses \cup
                      {[phone |-> user.phone, id |-> user.id,
                        sub |-> issue_token(user, now).sub]}
               /\ issued' = issued \cup {issue_token(user, now)}
               /\ UNCHANGED errors
    /\ UNCHANGED <<now, otps, vt, requested, me, chatVars>>

\* what a client holding the token tok may send instead of it: the token cut
\* short, with another subject, signed with a key of its own, or, JWT_SECRET
\* being the default the source publishes, signed properly without a subject
\* or without a phone
Forged(tok) ==
    { [tok EXCEPT !.fmt = "garbage"],
      [tok EXCEPT !.sub = "u_0"],
      JwtEncode(tok.sub, tok.phone, tok.exp + TOKEN_TTL_SECONDS, tok.iat,
                "another secret"),
      JwtEncode("", tok.phone, tok.exp + TOKEN_TTL_SECONDS, tok.iat, JWT_SECRET),
      JwtEncode(tok.sub, "", tok.exp + TOKEN_TTL_SECONDS, tok.iat, JWT_SECRET) }

AuthHeaders ==
    {NoAuth} \cup {Bearer(tok) : tok \in issued}
             \cup {Bearer(f) : f \in UNION {Forged(tok) : tok \in issued}}

\* lines 136-138: GET /api/me with the Authorization header auth
Me(auth) ==
    /\ me' = [at |-> now, auth |-> auth, user |-> get_auth_user(auth, now)]
    /\ UNCHANGED <<now, authVars, issued, chatVars>>

\* the clock moves on to a later moment
TokenTick(t) ==
    /\ t > now
    /\ now' = t
    /\ UNCHANGED <<authVars, tokenVars, chatVars>>

\* ------------------------------------------------------------- the chat room
\* two users as verify_otp made them
U1 == [id |-> "u_1", phone |-> "+1555000111"]
U2 == [id |-> "u_2", phone |-> "+1555000222"]

\* the chat part runs at one moment: a token issued at 1 expires exactly now,
\* a token issued at 0 expired a second ago
ChatNow == TOKEN_TTL_SECONDS + 1

\* what a client may put in /ws?token=...: nothing, tokens the server issued,
\* and tokens it did not issue
QueryTokens ==
    { NoToken,
      issue_token(U1, 1),
      issue_token(U2, 1),
      issue_token(U1, 0),
      [issue_token(U1, 1) EXCEPT !.fmt = "garbage"],
      [issue_token(U1, 1) EXCEPT !.sub = U2.id],
      JwtEncode(U1.id, U1.phone, ChatNow, 1, "another secret"),
      JwtEncode("", U1.phone, ChatNow, 1, JWT_SECRET),
      JwtEncode(U1.id, "", ChatNow, 1, JWT_SECRET) }

Texts == { <<Space>>, <<Space, "a", Space>> }

\* what receive_json() may return or raise on: a JSON object with a type and
\* a text, or something that is no JSON object
InFrames ==
    {[json |-> "object", type |-> "message", text |-> t] : t \in Texts}
    \cup {[json |-> "object", type |-> "typing", text |-> <<>>],
          [json |-> "invalid", type |-> "", text |-> <<>>]}

\* the msg dict of lines 169-175; n is not in the code: it records the place
\* of the message in the timeline, so that two posts are never confused
NoMsg == [id |-> 0, sender_id |-> "", sender |-> "", text |-> <<>>, ts |-> 0, n |-> 0]

\* "m_" + random.choices(...): any id at all.  Ids are only ever compared, so
\* the draw is either an id the timeline already holds or one new id.
MsgIds(msgs) ==
    LET used == {msgs[i].id : i \in 1..Len(msgs)}
    IN used \cup {Cardinality(used) + 1}

\* an outbound frame as it reached (ok) or failed to reach a websocket
HistoryFrame(recent, ok) ==
    [type |-> "history", messages |-> recent, message |-> NoMsg, ok |-> ok]
MessageFrame(m, ok) ==
    [type |-> "message", messages |-> <<>>, message |-> m, ok |-> ok]

\* `data` before the first receive_json() returned
NoFrame == [json |-> "none", type |-> "", text |-> <<>>]

\* nframes is not in the code: it counts the frames receive_json() returned
NewHandler ==
    [pc |-> "idle", token |-> NoToken, uid |-> "", phone |-> "", data |-> NoFrame,
     nframes |-> 0, msg |-> NoMsg, it |-> NoIter, dead |-> <<>>, exc |-> "",
     close |-> 0]

\* the handler of c has run `connections[uid] = ws`
InRegistry(c) == c \in Values(connections)

RECURSIVE SumFrames(_, _)
SumFrames(w, S) ==
    IF S = {} THEN 0
    ELSE LET c == CHOOSE x \in S : TRUE IN w[c].nframes + SumFrames(w, S \ {c})

\* connection attempts so far, plus frames received
Load == Cardinality({c \in Handles : ws[c].pc # "idle"}) + SumFrames(ws, Handles)

\* the messages posted at the present moment
Posted == Cardinality({i \in DOMAIN messages : messages[i].ts = now})

\* lines 142-155: a client opens /ws?token=tok.  No token, or a token that
\* does not verify, closes the websocket with 4401; anything else goes on to
\* accept().
Connect(c, tok) ==
    /\ ws[c].pc = "idle"
    /\ \A b \in Handles : b < c => ws[b].pc # "idle"
    /\ Load < MaxLoad
    /\ LET user == verify_token(tok, now)
       IN IF tok.fmt = "none" \/ ~user.ok
          THEN /\ ws' = [ws EXCEPT ![c].pc = "rejected", ![c].token = tok,
                                   ![c].close = CLOSE_UNAUTHORIZED]
               /\ UNCHANGED alive
          ELSE /\ ws' = [ws EXCEPT ![c].pc = "accepting", ![c].token = tok,
                                   ![c].uid = user.id, ![c].phone = user.phone]
               /\ alive' = [alive EXCEPT ![c] = TRUE]
    /\ UNCHANGED <<now, authVars, tokenVars, connections, messages, wlog>>

\* line 155: accept() raises because the peer is gone; nothing catches it
AcceptFails(c) ==
    /\ ws[c].pc = "accepting"
    /\ ~alive[c]
    /\ ws' = [ws EXCEPT ![c].pc = "failed", ![c].exc = "accept"]
    /\ UNCHANGED <<now, authVars, tokenVars, connections, messages, alive, wlog>>

\* a handler that registers and enters the loop without sending the history
RegisterNoHistory(c) ==
    /\ ws[c].pc = "accepting"
    /\ connections' = DictSet(connections, ws[c].uid, c)
    /\ ws' = [ws EXCEPT ![c].pc = "recv"]
    /\ UNCHANGED <<now, authVars, tokenVars, messages, alive, wlog>>

\* lines 156-160: register, then write the history frame; a failed write is
\* raised outside the try block
Register(c) ==
    /\ ws[c].pc = "accepting"
    /\ connections' = DictSet(connections, ws[c].uid, c)
    /\ wlog' = [wlog EXCEPT ![c] =
                   Append(@, HistoryFrame(LastN(messages, HISTORY_LIMIT), alive[c]))]
    /\ ws' = [ws EXCEPT ![c].pc = IF alive[c] THEN "recv" ELSE "failed",
                        ![c].exc = IF alive[c] THEN "" ELSE "send"]
    /\ UNCHANGED <<now, authVars, tokenVars, messages, alive>>

\* One turn of `for cid, conn in connections.items()` for the handler of c,
\* from next(it) to the suspension in send_json: the registry, the handler
\* and the written frames afterwards.  RuntimeError from next(it) leaves the
\* while loop through `finally`; StopIteration runs the pruning loop.
BroadcastTurn(c, d, h) ==
    LET r == DictIterNext(d, h.it)
        ok == alive[r.val]
    IN CASE r.kind = "error" ->
              [conns |-> DictPop(d, h.uid),
               h |-> [h EXCEPT !.pc = "done", !.exc = "RuntimeError", !.it = NoIter,
                               !.msg = NoMsg, !.dead = <<>>],
               to |-> NoHandle, ok |-> FALSE]
         [] r.kind = "stop" ->
              [conns |-> PopAll(d, h.dead),
               h |-> [h EXCEPT !.pc = "recv", !.it = NoIter, !.msg = NoMsg,
                               !.dead = <<>>],
               to |-> NoHandle, ok |-> FALSE]
         [] OTHER ->
              [conns |-> d,
               h |-> [h EXCEPT !.pc = "bcast", !.it = r.it,
                               !.dead = IF ok THEN @ ELSE Append(@, r.key)],
               to |-> r.val, ok |-> ok]

ApplyTurn(c, t) ==
    /\ connections' = t.conns
    /\ ws' = [ws EXCEPT ![c] = t.h]
    /\ wlog' = IF t.to = NoHandle THEN wlog
               ELSE [wlog EXCEPT ![t.to] = Append(@, MessageFrame(ws'[c].msg, t.ok))]
    /\ alive' = IF t.h.pc = "done" THEN [alive EXCEPT ![c] = FALSE] ELSE alive

\* lines 164-181: a frame arrives.  A message with text is appended to the
\* timeline and the broadcast starts; other frames are ignored; a frame that
\* is no JSON object raises and leaves through `finally`.
Receive(c, f, mid) ==
    /\ ws[c].pc = "recv"
    /\ alive[c]
    /\ IF f.json # "object"
       THEN /\ ws' = [ws EXCEPT ![c].pc = "done", ![c].exc = "Exception"]
            /\ connections' = DictPop(connections, ws[c].uid)
            /\ alive' = [alive EXCEPT ![c] = FALSE]
            /\ UNCHANGED <<messages, wlog>>
       ELSE /\ Load < MaxLoad
            /\ LET got == [ws[c] EXCEPT !.data = f, !.nframes = @ + 1]
                   text == Strip(f.text)
               IN IF f.type = "message" /\ text # <<>>
                  THEN /\ Posted < MaxMsgs
                       /\ LET m == [id |-> mid, sender_id |-> ws[c].uid,
                                    sender |-> ws[c].phone, text |-> text,
                                    ts |-> now, n |-> Len(messages) + 1]
                              h == [got EXCEPT !.msg = m, !.dead = <<>>,
                                               !.it = DictIter(connections)]
                          IN /\ messages' = Append(messages, m)
                             /\ ApplyTurn(c, BroadcastTurn(c, connections, h))
                  ELSE /\ ws' = [ws EXCEPT ![c] = got]
                       /\ UNCHANGED <<connections, messages, alive, wlog>>
    /\ UNCHANGED <<now, authVars, tokenVars>>

\* lines 179-185: the broadcast resumes after a send_json
BroadcastStep(c) ==
    /\ ws[c].pc = "bcast"
    /\ ApplyTurn(c, BroadcastTurn(c, connections, ws[c]))
    /\ UNCHANGED <<now, authVars, tokenVars, messages>>

\* a handler whose `except WebSocketDisconnect: pass` has no `finally`
DisconnectNoCleanup(c) ==
    /\ ws[c].pc = "recv"
    /\ ~alive[c]
    /\ ws' = [ws EXCEPT ![c].pc = "done", ![c].exc = "WebSocketDisconnect"]
    /\ UNCHANGED <<now, authVars, tokenVars, connections, messages, alive, wlog>>

\* lines 164, 189-192: receive_json raises WebSocketDisconnect
Disconnect(c) ==
    /\ ws[c].pc = "recv"
    /\ ~alive[c]
    /\ ws' = [ws EXCEPT ![c].pc = "done", ![c].exc = "WebSocketDisconnect"]
    /\ connections' = DictPop(connections, ws[c].uid)
    /\ UNCHANGED <<now, authVars, tokenVars, messages, alive, wlog>>

\* the peer goes away; the handler notices at its next accept, send or receive
ClientClose(c) ==
    /\ ws[c].pc \in {"accepting", "recv", "bcast"}
    /\ alive[c]
    /\ alive' = [alive EXCEPT ![c] = FALSE]
    /\ UNCHANGED <<now, authVars, tokenVars, connections, messages, ws, wlog>>

\* everything but the clock, the registry and the timeline
InitRest ==
    /\ users = [p \in Phones |-> NoUserRecord]
    /\ otps = [p \in Phones |-> NoOtp]
    /\ vt = [t \in Threads |-> IdleThread]
    /\ requested = [p \in Phones |-> <<>>]
    /\ responses = {}
    /\ errors = {}
    /\ issued = {}
    /\ me = NoCall
    /\ ws = [c \in Handles |-> NewHandler]
    /\ alive = [c \in Handles |-> FALSE]
    /\ wlog = [c \in Handles |-> <<>>]

InitState ==
    /\ InitRest
    /\ connections = EmptyDict
    /\ messages = <<>>

InitChat == now = ChatNow /\ InitState

NextChat ==
    \/ \E c \in Handles, tok \in QueryTokens : Connect(c, tok)
    \/ \E c \in Handles : AcceptFails(c)
    \/ \E c \in Handles : Register(c)
    \/ \E c \in Handles, f \in InFrames, mid \in MsgIds(messages) : Receive(c, f, mid)
    \/ \E c \in Handles : BroadcastStep(c)
    \/ \E c \in Handles : Disconnect(c)
    \/ \E c \in Handles : ClientClose(c)

SpecChat == InitChat /\ [][NextChat]_vars

InitAuth == now = 0 /\ InitState

NextAuth ==
    \/ \E p \in Phones : send_otp(p)
    \/ \E t \in Threads, p \in Phones, code \in Codes : VerifyBegin(t, p, code)
    \/ \E t \in Threads : VerifyRead(t)
    \/ \E t \in Threads : VerifyCheck(t)
    \/ \E t \in Threads : VerifyTest(t)
    \/ \E t \in Threads, id \in UserIds : VerifyCreate(t, id)
    \/ \E t \in Threads : VerifyFetch(t)
    \/ \E t \in Threads : VerifyIssue(t)
    \/ \E d \in {OTP_TTL_SECONDS, OTP_TTL_SECONDS + 1} : AuthTick(d)

SpecAuth == InitAuth /\ [][NextAuth]_vars

InitToken == now = 0 /\ InitState

NextToken ==
    \/ \E p \in Phones : send_otp(p)
    \/ \E p \in Phones, code \in Codes, id \in UserIds : verify_otp(p, code, id)
    \/ \E auth \in AuthHeaders : Me(auth)
    \/ \E t \in TokenTimes : TokenTick(t)

SpecToken == InitToken /\ [][NextToken]_vars

\* A room with a past: one connection of U1 posted HISTORY_LIMIT - 1 messages
\* some time ago and left.
OldTimeline ==
    [i \in 1..(HISTORY_LIMIT - 1) |->
        [id |-> i, sender_id |-> U1.id, sender |-> U1.phone, text |-> <<"a">>,
         ts |-> 0, n |-> i]]

ValidTokens == {issue_token(U1, 1), issue_token(U2, 1)}

PostFrames == {[json |-> "object", type |-> "message", text |-> <<Space, "a", Space>>]}

\* a random id that no message of the timeline has
FreshIds(msgs) == {Len(msgs) + 1}

InitHistory ==
    /\ now = ChatNow
    /\ InitRest
    /\ connections = DictPop(DictSet(EmptyDict, U1.id, NoHandle), U1.id)
    /\ messages = OldTimeline

NextHistory ==
    \/ \E c \in Handles, tok \in ValidTokens : Connect(c, tok)
    \/ \E c \in Handles : AcceptFails(c)
    \/ \E c \in Handles : Register(c)
    \/ \E c \in Handles, f \in PostFrames, mid \in FreshIds(messages) :
          Receive(c, f, mid)
    \/ \E c \in Handles : BroadcastStep(c)
    \/ \E c \in Handles : Disconnect(c)
    \/ \E c \in Handles : ClientClose(c)

SpecHistory == InitHistory /\ [][NextHistory]_vars

\* Clients that send long texts: of as many characters as MessageIn allows,
\* and of one more, each between two spaces.
LongText(n) == <<Space>> \o [i \in 1..n |-> "a"] \o <<Space>>

LongFrames ==
    {[json |-> "object", type |-> "message", text |-> LongText(n)] :
        n \in {MAX_TEXT_LENGTH, MAX_TEXT_LENGTH + 1}}

NextText ==
    \/ \E c \in Handles : Connect(c, issue_token(U1, 1))
    \/ \E c \in Handles : AcceptFails(c)
    \/ \E c \in Handles : Register(c)
    \/ \E c \in Handles, f \in LongFrames, mid \in FreshIds(messages) :
          Receive(c, f, mid)
    \/ \E c \in Handles : BroadcastStep(c)
    \/ \E c \in Handles : Disconnect(c)
    \/ \E c \in Handles : ClientClose(c)

SpecText == InitChat /\ [][NextText]_vars

\* ------------------------------------------------------------------ claims
\* the message frame of m was written to c and reached it, in the log wl
GotIn(wl, c, m) == \E i \in DOMAIN wl[c] : wl[c][i] = MessageFrame(m, TRUE)

\* c got its history frame before m was appended: it was established when m
\* was posted
EstablishedAt(c, m) ==
    /\ wlog[c] # <<>>
    /\ wlog[c][1].type = "history"
    /\ wlog[c][1].ok
    /\ Len(wlog[c][1].messages) < m.n

\* the handler of s resumes its broadcast and the broadcast ends in this step
BroadcastEnds(s) == ws[s].pc = "bcast" /\ ws'[s].pc # "bcast"

\* C1: if a connection unregisters (its handler ran the Closed cleanup) while
\* another connection's broadcast is suspended between two deliveries, the
\* broadcast does not fail: the sender's handler stays in the Active loop, and
\* every connection registered for the whole broadcast gets the message frame.
C1_BroadcastSurvivesUnregister ==
    [][\A s \in Handles :
          ( /\ ws[s].pc = "bcast"
            /\ Used(connections) < ws[s].it.di_used
            /\ \E c \in Handles \ {s} :
                  /\ ws[c].pc = "done"
                  /\ ws[c].exc = "WebSocketDisconnect"
                  /\ ~HasKey(connections, ws[c].uid) )
          => /\ ws'[s].pc \in {"bcast", "recv"}
             /\ ws'[s].pc = "recv" =>
                   \A h \in Handles :
                      ( /\ EstablishedAt(h, ws[s].msg)
                        /\ alive'[h]
                        /\ DictGet(connections', ws[h].uid) = h )
                      => GotIn(wlog', h, ws[s].msg)]_vars

\* C2: a broadcast over N registered connections in which exactly one write
\* fails ends with the sender's handler still in the Active loop, with all N
\* handles attempted and N-1 of them reached, and with the failed user id
\* gone from the registry.
C2_OneDeadHandle ==
    [][\A s \in Handles :
          (BroadcastEnds(s) /\ Len(ws[s].dead) = 1)
          => /\ ws'[s].pc = "recv"
             /\ ws[s].it.len = 0
             /\ Cardinality({h \in Handles : GotIn(wlog', h, ws[s].msg)})
                   = ws[s].it.di_used - 1
             /\ ~HasKey(connections', ws[s].dead[1])]_vars

\* C3: a posted message is in the timeline with the poster's phone as sender
\* and the trimmed text, and when its broadcast ends every connection that was
\* established when it was posted, and is still open and registered, has been
\* sent its message frame.
C3_DeliveredToAllEstablished ==
    [][\A s \in Handles :
          BroadcastEnds(s)
          => LET m == ws[s].msg
             IN /\ messages[m.n] = m
                /\ m.sender = ws[s].phone
                /\ m.text # <<>>
                /\ \A h \in Handles :
                      ( /\ EstablishedAt(h, m)
                        /\ alive'[h]
                        /\ ws'[h].pc \in {"recv", "bcast"}
                        /\ DictGet(connections', ws[h].uid) = h )
                      => GotIn(wlog', h, m)]_vars

\* the handler of c entered the Active loop: its history frame went out
EnteredActive(c) == wlog[c] # <<>> /\ wlog[c][1].type = "history" /\ wlog[c][1].ok

\* C4: a handler that entered the Active loop and is no longer in it has run
\* the Closed cleanup, and the registry holds no entry of its user id that
\* points at its websocket.
C4_ClosedCleanup ==
    \A c \in Handles :
       (EnteredActive(c) /\ ws[c].pc \notin {"recv", "bcast"})
       => ws[c].pc = "done" /\ DictGet(connections, ws[c].uid) # c

C4_Witness ==
    \E c \in Handles :
       /\ EnteredActive(c)
       /\ ws[c].pc = "done"
       /\ ws[c].exc = "RuntimeError"
       /\ \E d \in Handles \ {c} : ws[d].pc = "done" /\ ws[d].exc = "WebSocketDisconnect"
       /\ \E d \in Handles \ {c} : ws[d].pc = "done" /\ ws[d].exc = "Exception"

\* a token that must not open a connection at time t: malformed, signed with
\* another key or altered, without subject or phone, or past its expiry
BadToken(tok, t) ==
    \/ tok.fmt # "jwt"
    \/ tok.sig # Sign(tok.sub, tok.phone, tok.exp, tok.iat, JWT_SECRET)
    \/ tok.sub = ""
    \/ tok.phone = ""
    \/ t > tok.exp

\* C5: a connection attempt with no token or a token that fails verification
\* is closed with 4401 and never accepted: it has no registry entry, no frame
\* was written to it, and the attempt changed neither registry nor timeline.
C5_Unauthorized ==
    /\ [](\A c \in Handles :
             (ws[c].pc # "idle" /\ BadToken(ws[c].token, now))
             => /\ ws[c].pc = "rejected"
                /\ ws[c].close = CLOSE_UNAUTHORIZED
                /\ wlog[c] = <<>>
                /\ ~InRegistry(c))
    /\ [][\A c \in Handles :
             (ws[c].pc = "idle" /\ ws'[c].pc # "idle" /\ BadToken(ws'[c].token, now))
             => UNCHANGED <<connections, messages, wlog>>]_vars

C5_Witness ==
    /\ Used(connections) > 0
    /\ \E c \in Handles :
          /\ ws[c].pc = "rejected"
          /\ ws[c].token = issue_token(U1, 0)
    /\ \E c \in Handles :
          /\ ws[c].pc = "rejected"
          /\ ws[c].token.fmt = "jwt"
          /\ ws[c].token.sig.key # JWT_SECRET

\* C6: the first frame written to a websocket is the history frame, no other
\* frame written to it is a history frame, and a connection in the Active loop
\* has got it; no message frame of a broadcast precedes it.
C6_HistoryFirst ==
    \A c \in Handles :
       /\ wlog[c] # <<>> => wlog[c][1].type = "history"
       /\ \A i \in DOMAIN wlog[c] : i > 1 => wlog[c][i].type = "message"
       /\ ws[c].pc \in {"recv", "bcast"} => EnteredActive(c)

\* a connection registered while the broadcast of the only message was
\* suspended: it got the history holding the message, then the message frame
C6_Witness ==
    /\ Len(messages) = 1
    /\ \E c \in Handles :
          wlog[c] = <<HistoryFrame(messages, TRUE), MessageFrame(messages[1], TRUE)>>

C8_SameUserEveryTime ==
    \A r1, r2 \in responses : r1.phone = r2.phone => r1.id = r2.id

\* C9: in every interleaving of verify-otp requests for one phone, the User
\* record of the phone is created once and never changed afterwards.
C9_UserCreatedOnce ==
    [][\A p \in Phones : users[p] # NoUserRecord => users'[p] = users[p]]_vars

\* the latest challenge requested for p
Latest(p) == requested[p][Len(requested[p])]

\* C10: a phone has one stored challenge, the latest one requested; a
\* verify-otp reads that one, and succeeds exactly when its code is the code
\* of the challenge it read and the time is not after that challenge's expiry.
C10_LatestChallengeDecides ==
    /\ [](\A p \in Phones :
             otps[p] = IF requested[p] = <<>> THEN NoOtp ELSE Latest(p))
    /\ [][\A t \in Threads :
             /\ (vt[t].pc = "read" /\ vt'[t].pc # "read")
                => IF requested[vt[t].phone] = <<>>
                   THEN vt'[t].pc = "idle"
                   ELSE vt'[t].pc = "check" /\ vt'[t].record = Latest(vt[t].phone)
             /\ (vt[t].pc = "check" /\ vt'[t].pc # "check")
                => ( vt'[t].pc = "test"
                     <=> (vt[t].code = vt[t].record.code
                            /\ now <= vt[t].record.expires) )]_vars

\* a request accepted under the second challenge after the first one expired
C10_Witness ==
    \E t \in Threads :
       LET p == vt[t].phone
       IN /\ vt[t].pc = "test"
          /\ Len(requested[p]) = 2
          /\ requested[p][1].expires < now
          /\ vt[t].record = requested[p][2]
          /\ vt[t].record # requested[p][1]

\* C11: a verify-otp that fails (no challenge, challenge expired, wrong code)
\* leaves the user table and the challenge table as they were and issues no
\* token; a stored challenge is never deleted, so a request with the right
\* code that reads it before its expiry is still accepted.
C11_FailureChangesNothing ==
    /\ [][\A t \in Threads :
             (vt[t].pc \in {"read", "check"} /\ vt'[t].pc = "idle")
             => UNCHANGED <<users, otps, responses>>]_vars
    /\ [][\A p \in Phones : otps[p] # NoOtp => otps'[p] # NoOtp]_vars
    /\ [][\A t \in Threads :
             (vt[t].pc = "check" /\ vt[t].code = otps[vt[t].phone].code
                /\ now <= otps[vt[t].phone].expires /\ vt[t].record = otps[vt[t].phone]
                /\ vt'[t] # vt[t])
             => vt'[t].pc = "test"]_vars

\* a request was refused for its code, under the only challenge ever sent,
\* and the next request is accepted under that challenge
C11_Witness ==
    \E t \in Threads :
       LET p == vt[t].phone
       IN /\ vt[t].pc = "test"
          /\ errors = {"Invalid code"}
          /\ \A q \in Phones \ {p} : requested[q] = <<>>
          /\ Len(requested[p]) = 1
          /\ vt[t].record = requested[p][1]
          /\ otps[p] = requested[p][1]
          /\ users[p] = NoUserRecord
          /\ responses = {}
          /\ \A u \in Threads \ {t} : vt[u].pc = "idle"

\* C15: a token issued for a user expires 7 days after it was issued; until
\* then, its expiry included, GET /api/me with it answers with exactly that
\* user's id and phone, and after its expiry it is refused; the verification
\* changes neither user table, challenge table, registry nor timeline.
C15_TokenRoundTrip ==
    /\ [](\A tok \in issued :
             LET expiry == tok.iat + 7 * 24 * 60 * 60
             IN /\ tok.exp = expiry
                /\ users[tok.phone].id = tok.sub
                /\ users[tok.phone].phone = tok.phone
                /\ me.auth = Bearer(tok)
                   => IF me.at <= expiry
                      THEN me.user = [ok |-> TRUE, id |-> tok.sub,
                                      phone |-> tok.phone, detail |-> ""]
                      ELSE ~me.user.ok)
    /\ [][me' # me => UNCHANGED <<users, otps, connections, messages>>]_vars

\* a token verified at the very second of its expiry, after a refused call
C15_Witness ==
    /\ me.auth.token \in issued
    /\ me.at = me.auth.token.exp
    /\ me.user.ok
    /\ me.user.id = users[me.user.phone].id
    /\ errors # {}

\* the token of the last /api/me call was issued by the server and had
\* expired when the call was made
ExpiredCall ==
    /\ me.auth.scheme = "Bearer"
    /\ me.auth.token \in issued
    /\ me.at > me.auth.token.exp

\* C16: an expired but otherwise valid token is refused with an outcome of its
\* own (TokenExpired), different from the outcome for a token that is
\* malformed, signed with another key, altered, or lacks subject or phone.
C16_ExpiredIsTold ==
    ExpiredCall
    => /\ ~me.user.ok
       /\ \A f \in Forged(me.auth.token) :
             get_auth_user(Bearer(f), me.at).detail # me.user.detail

\* a text of spaces only, or no text at all
Blank(text) == \A i \in DOMAIN text : text[i] = Space

\* C17: a received frame that is a message whose text is empty after trim, or
\* that is of any other kind, changes neither timeline nor registry, writes
\* no frame to any websocket, and leaves the handler in the Active loop,
\* where it receives its next frame.
C17_IgnoredFrames ==
    [][\A c \in Handles :
          ( /\ ws'[c].nframes > ws[c].nframes
            /\ ws'[c].data.type # "message" \/ Blank(ws'[c].data.text) )
          => /\ UNCHANGED <<messages, connections, wlog, alive>>
             /\ ws'[c].pc = "recv"
             /\ ws'[c] = [ws[c] EXCEPT !.data = ws'[c].data, !.nframes = @ + 1]]_vars

\* a handler that ignored two frames, then received a message, posted it and
\* finished its broadcast
C17_Witness ==
    \E c \in Handles :
       /\ ws[c].nframes = 3
       /\ ws[c].pc = "recv"
       /\ ws[c].data.type = "message"
       /\ ~Blank(ws[c].data.text)
       /\ Len(messages) = 1
       /\ wlog[c] = <<HistoryFrame(<<>>, TRUE), MessageFrame(messages[1], TRUE)>>

\* C13: no two messages of the timeline have the same id.
C13_UniqueIds ==
    \A i, j \in DOMAIN messages : messages[i].id = messages[j].id => i = j

\* the handler of c leaves the registry entry of its user id to its websocket
Holds(d, c) == ws[c].uid # "" /\ DictGet(d, ws[c].uid) = c

\* C18: the registry entry holding a websocket is removed only on account of
\* that websocket: when its own handler runs the Closed cleanup, or when a
\* broadcast that failed to write to it prunes it.  The cleanup of an older
\* connection of the same user, or a prune for a failed write to the older
\* websocket, does not remove it.
C18_RemovedForOwnHandle ==
    [][\A c \in Handles :
          (Holds(connections, c) /\ ~HasKey(connections', ws[c].uid))
          => \/ ws[c].pc # "done" /\ ws'[c].pc = "done"
             \/ \E s \in Handles :
                   /\ BroadcastEnds(s)
                   /\ ws'[s].pc = "recv"
                   /\ \E i \in DOMAIN wlog[c] :
                         wlog[c][i] = MessageFrame(ws[s].msg, FALSE)]_vars

\* C19: the message frames that reached a websocket reached it in timeline
\* order: a frame for an earlier message of the timeline comes before a
\* frame for a later one.
C19_TimelineOrder ==
    \A c \in Handles : \A i, j \in DOMAIN wlog[c] :
       ( /\ i < j
         /\ wlog[c][i].type = "message" /\ wlog[c][i].ok
         /\ wlog[c][j].type = "message" /\ wlog[c][j].ok
         /\ Holds(connections, c)
         /\ \A s \in Handles : ws[s].exc = "" )
       => wlog[c][i].message.n < wlog[c][j].message.n

\* C20: every registry entry holds the websocket of a handler that is still
\* running; a handler whose history write failed has not ended with its
\* websocket left in the registry.
C20_EntriesAreRunning ==
    \A c \in Handles : InRegistry(c) => ws[c].pc \in {"recv", "bcast"}

\* C12: the history written to a joining connection holds at most 50
\* messages and is exactly the last min(50, length) messages of the timeline
\* as it stands at that moment, in the order they were appended: the whole
\* timeline when it has fewer than 50.
C12_HistorySnapshot ==
    /\ [][\A c \in Handles :
             (wlog[c] = <<>> /\ wlog'[c] # <<>>)
             => LET h == wlog'[c][1].messages
                    k == IF Len(messages) < 50 THEN Len(messages) ELSE 50
                IN /\ wlog'[c][1].type = "history"
                   /\ Len(h) = k
                   /\ \A i \in 1..k : h[i] = messages[Len(messages) - k + i]]_vars
    /\ [](\A c \in Handles : \A f \in DOMAIN wlog[c] :
             wlog[c][f].type = "history"
             => LET h == wlog[c][f].messages
                IN /\ Len(h) <= 50
                   /\ \A i \in DOMAIN h : h[i] = messages[h[1].n + i - 1])

\* a connection joined a timeline of 51 messages and was sent 50 of them,
\* from the second on
C12_Witness ==
    \E c \in Handles :
       /\ EnteredActive(c)
       /\ Len(wlog[c][1].messages) = 50
       /\ wlog[c][1].messages[1] = messages[2]
       /\ wlog[c][1].messages[50] = messages[51]

\* C14: every message of the timeline has a text that is not empty after
\* trim and has at most 2000 characters: a message frame with a longer text
\* is neither appended nor broadcast.
C14_TextWithinBounds ==
    /\ \A i \in DOMAIN messages :
          ~Blank(messages[i].text) /\ Len(messages[i].text) <= 2000
    /\ \A c \in Handles : \A f \in DOMAIN wlog[c] :
          wlog[c][f].type = "message" => Len(wlog[c][f].message.text) <= 2000

====
